---- MODULE Spec2Model ----
(***************************************************************************)
(* Model of the BuyersMatch marketing-post service.                        *)
(*   main.py               generate_marketing_post, protect_image_bytes,   *)
(*                         add_noise and the other perturbations           *)
(*   template_generator.py BuyersMatchTemplate (the compositor)            *)
(*                                                                         *)
(* Text is a sequence of atoms (one-character strings for values that the  *)
(* code inspects or re-cases, whole words for the literal labels it only   *)
(* draws).  An optional value is <<>> (None / absent) or <<v>>.            *)
(* An image is a record; a canvas is an image whose content is the list    *)
(* of layers drawn on it.                                                  *)
(***************************************************************************)
EXTENDS Integers, Sequences, FiniteSets, TLC

VARIABLES
    \* ---- generate_marketing_post (main.py 95-226)
    pc,                 \* position of the handler
    req,                \* the request being handled
    main_img, logo_img, interior_images, property_data,
    generator,          \* the BuyersMatchTemplate instance last constructed
    template_image, apply_protection, output_format,
    final_image_bytes, content_type,
    exc,                \* the exception in flight, <<>> when none
    responses,          \* the responses returned for the current request
    trace,              \* the stages entered while handling the current request
    hist,               \* completed requests (kept only when recording)
    recording,
    \* ---- create_property_template stepped on its own (template_generator.py 67-132)
    c_pc, c_in, c_st, c_bbox,
    \* ---- protect_image_bytes / add_noise stepped on their own (main.py 72-92)
    p_pc, p_bytes, p_img, p_i, p_log, p_out, p_amount,
    \* ---- _get_font called on its own (template_generator.py 30-65)
    f_pc,               \* "off", or "ready" between two calls
    f_gen,              \* the instance whose _get_font is called
    f_log,              \* the calls made so far
    \* ---- the machine the service runs on
    fonts_installed     \* the font files ImageFont.truetype can load

hvars == <<pc, req, main_img, logo_img, interior_images, property_data, generator,
           template_image, apply_protection, output_format, final_image_bytes,
           content_type, exc, responses, trace, hist, recording>>
cvars == <<c_pc, c_in, c_st, c_bbox>>
pvars == <<p_pc, p_bytes, p_img, p_i, p_log, p_out, p_amount>>
fvars == <<f_pc, f_gen, f_log>>
vars == <<hvars, cvars, pvars, fvars, fonts_installed>>

-----------------------------------------------------------------------------
(* Bounds of the model *)

\* completed requests remembered while recording
MaxHist == 2
\* longest interior list handed to the compositor directly
MaxInteriors == 4
\* channel values of the small rasters add_noise is applied to
MaxPixels == 2

-----------------------------------------------------------------------------
(* Text *)

None == <<>>
Some(v) == <<v>>
IsNone(m) == m = <<>>
Val(m) == m[1]

Lo == <<"a","b","c","d","e","f","g","h","i","j","k","l","m",
        "n","o","p","q","r","s","t","u","v","w","x","y","z">>
Up == <<"A","B","C","D","E","F","G","H","I","J","K","L","M",
        "N","O","P","Q","R","S","T","U","V","W","X","Y","Z">>

LowerChar(c) ==
    IF \E i \in 1..26 : Up[i] = c THEN Lo[CHOOSE i \in 1..26 : Up[i] = c] ELSE c
UpperChar(c) ==
    IF \E i \in 1..26 : Lo[i] = c THEN Up[CHOOSE i \in 1..26 : Lo[i] = c] ELSE c

\* str.lower(), str.upper()
Lower(s) == [i \in 1..Len(s) |-> LowerChar(s[i])]
Upper(s) == [i \in 1..Len(s) |-> UpperChar(s[i])]

\* str.startswith(prefix)
StartsWith(s, prefix) ==
    /\ Len(s) >= Len(prefix)
    /\ \A i \in 1..Len(prefix) : s[i] = prefix[i]

\* sep.join(parts)
RECURSIVE Join(_, _)
Join(parts, sep) ==
    IF parts = <<>> THEN <<>>
    ELSE IF Len(parts) = 1 THEN parts[1]
    ELSE parts[1] \o sep \o Join(Tail(parts), sep)

\* str.replace(' ', '_')
ReplaceSpace(s) == [i \in 1..Len(s) |-> IF s[i] = " " THEN "_" ELSE s[i]]

\* truthiness of dict.get(key): None and '' are falsy
Truthy(m) == m # <<>> /\ Val(m) # <<>>

\* dict.get(key, default)
GetOr(m, default) == IF IsNone(m) THEN default ELSE Val(m)

S_true == <<"t","r","u","e">>
S_png == <<"p","n","g">>
S_PNG == <<"P","N","G">>
S_JPEG == <<"J","P","E","G">>
S_image_slash == <<"i","m","a","g","e","/">>
S_image_jpeg == S_image_slash \o <<"j","p","e","g">>

-----------------------------------------------------------------------------
(* Images and encoded buffers *)

\* An uploaded file body: "good" decodes, "truncated" has a readable header
\* but fails when its pixels are loaded, "garbage" is not an image at all.
FileData(id, w, h, kind) == [id |-> id, w |-> w, h |-> h, kind |-> kind]
Upload(ctype, data) == [content_type |-> ctype, data |-> data]

\* Image.open(io.BytesIO(b)) of an upload: lazy, only the header is read.
OpenRaises(data) == data.kind = "garbage"
OpenUpload(data) ==
    [id |-> data.id, w |-> data.w, h |-> data.h, loads |-> data.kind = "good"]

\* Formats Image.save knows for an RGB image, by their registered names.
SaveFormats == { S_PNG, S_JPEG, <<"G","I","F">>, <<"B","M","P">>, <<"W","E","B","P">> }

\* img.save(buffer, format=fmt, quality=q): the format name is looked up as given
\* (upper-cased by PIL); '' and unknown names raise.
SaveRaises(fmt) == Upper(fmt) \notin SaveFormats
Encode(img, fmt, q) == [format |-> Upper(fmt), quality |-> q, picture |-> img]

-----------------------------------------------------------------------------
(* BuyersMatchTemplate: construction and the font cache *)

NoFont == [path |-> "", size |-> 0]
DefaultFont == [path |-> "default", size |-> 0]

\* BuyersMatchTemplate.__init__
BuyersMatchTemplate_init == [template_size |-> <<1080, 1080>>, font_cache |-> <<>>]

BoldFontPaths == << "/usr/share/fonts/truetype/dejavu/DejaVuSans-Bold.ttf",
                    "/usr/share/fonts/truetype/liberation/LiberationSans-Bold.ttf",
                    "arialbd.ttf" >>
RegularFontPaths == << "/usr/share/fonts/truetype/dejavu/DejaVuSans.ttf",
                       "/usr/share/fonts/truetype/liberation/LiberationSans-Regular.ttf",
                       "arial.ttf" >>

\* the machines the model is run on
FontEnvs == { {},
              { "/usr/share/fonts/truetype/dejavu/DejaVuSans-Bold.ttf",
                "/usr/share/fonts/truetype/liberation/LiberationSans-Regular.ttf" } }

\* the loop of _get_font: the first path that loads, else load_default()
RECURSIVE FirstLoadable(_, _)
FirstLoadable(paths, size) ==
    IF paths = <<>> THEN DefaultFont
    ELSE IF Head(paths) \in fonts_installed THEN [path |-> Head(paths), size |-> size]
    ELSE FirstLoadable(Tail(paths), size)

\* the same loop, the paths ImageFont.truetype was called with
RECURSIVE LoadAttempts(_)
LoadAttempts(paths) ==
    IF paths = <<>> THEN <<>>
    ELSE IF Head(paths) \in fonts_installed THEN << Head(paths) >>
    ELSE << Head(paths) >> \o LoadAttempts(Tail(paths))

\* a call that always takes the branch of line 34
NeverCached(gen, size, bold) == FALSE
\* line 34: cache_key in self._font_cache
Cached(gen, size, bold) ==
    \E i \in 1..Len(gen.font_cache) :
        gen.font_cache[i].size = size /\ gen.font_cache[i].bold = bold

\* _get_font, the instance after the call
GetFontGen(gen, size, bold) ==
    IF Cached(gen, size, bold) THEN gen
    ELSE [gen EXCEPT !.font_cache =
            Append(@, [size |-> size, bold |-> bold,
                       font |-> FirstLoadable(IF bold THEN BoldFontPaths
                                              ELSE RegularFontPaths, size)])]

\* _get_font, the calls of ImageFont.truetype it makes
GetFontAttempts(gen, size, bold) ==
    IF Cached(gen, size, bold) THEN <<>>
    ELSE LoadAttempts(IF bold THEN BoldFontPaths ELSE RegularFontPaths)

\* _get_font, the value returned
GetFont(gen, size, bold) ==
    LET g == GetFontGen(gen, size, bold)
        i == CHOOSE i \in 1..Len(g.font_cache) :
                g.font_cache[i].size = size /\ g.font_cache[i].bold = bold
    IN g.font_cache[i].font

\* draw.textbbox((0, 0), text, font): the ink box <<left, top, right, bottom>> of
\* the text at the origin; a property of the font file, sampled here.
TextBBox(font) ==
    IF font.path = "default" THEN <<0, 2, 72, 11>> ELSE <<3, 14, 543, 62>>

-----------------------------------------------------------------------------
(* Canvas and layers *)

Layer(op, x, y, w, h, text, font, src, fill) ==
    [op |-> op, x |-> x, y |-> y, w |-> w, h |-> h,
     text |-> text, font |-> font, src |-> src, fill |-> fill]
Shape(op, x, y, w, h, fill) == Layer(op, x, y, w, h, <<>>, NoFont, 0, fill)
Text(x, y, text, font, fill) == Layer("text", x, y, 0, 0, text, font, 0, fill)
Pasted(op, x, y, w, h, src) == Layer(op, x, y, w, h, <<>>, NoFont, src, "")

\* Image.new('RGB', size, color)
ImageNew(size, fill) == [w |-> size[1], h |-> size[2], fill |-> fill, layers |-> <<>>]

\* ImageDraw calls and Image.paste draw on the canvas in place; what falls
\* outside the canvas is clipped, the canvas keeps its size.
PasteExpanding(canvas, layer) ==
    [canvas EXCEPT !.layers = Append(@, layer),
                   !.w = IF layer.x + layer.w > @ THEN layer.x + layer.w ELSE @,
                   !.h = IF layer.y + layer.h > @ THEN layer.y + layer.h ELSE @]
Draw(canvas, layer) == [canvas EXCEPT !.layers = Append(@, layer)]

\* image.resize(size, LANCZOS): loads the pixels, which a truncated file refuses
ResizeRaises(img) == ~img.loads
Resize(img, w, h) == [img EXCEPT !.w = w, !.h = h]

\* The compositor's state between two drawing calls.
CState(template, gen, raised) == [template |-> template, gen |-> gen, raised |-> raised]
DrawOn(st, layer) == [st EXCEPT !.template = Draw(@, layer)]
Loaded(st, size, bold) == [st EXCEPT !.gen = GetFontGen(@, size, bold)]
Raise(st) == [st EXCEPT !.raised = TRUE]

RECURSIVE DrawAll(_, _)
DrawAll(st, layers) ==
    IF layers = <<>> THEN st ELSE DrawAll(DrawOn(st, Head(layers)), Tail(layers))

-----------------------------------------------------------------------------
(* create_property_template, one operator per drawing call *)

\* the fixed geometry of the template
CircleSize == 650
CircleInset == 630
CircleY == 100
WatermarkBox == 500
InteriorStartX == 30
InteriorStartY == 800
InteriorW == 120
InteriorH == 90
InteriorSpacing == 140
InteriorMax == 3

PropertyData(date, yield, price, valuation, title, type, bedrooms, bathrooms, location) ==
    [date |-> date, yield |-> yield, purchase_price |-> price,
     current_valuation |-> valuation, property_title |-> title, property_type |-> type,
     bedrooms |-> bedrooms, bathrooms |-> bathrooms, location |-> location]

\* lines 82-83
BaseTemplate(gen) == CState(ImageNew(gen.template_size, "cream_bg"), gen, FALSE)

\* _add_simple_dot_patterns
AddSimpleDotPatterns(st) ==
    LET top == [k \in 1..15 |->
                  Shape("ellipse", 200 + ((k - 1) \div 3) * 15, 80 + ((k - 1) % 3) * 15,
                        3, 3, "dot_gray")]
        bottom == [k \in 1..8 |->
                  Shape("ellipse", 850 + ((k - 1) \div 2) * 15, 950 + ((k - 1) % 2) * 15,
                        3, 3, "dot_gray")]
    IN DrawAll(st, top \o bottom)

\* _add_exact_brand_header
AddExactBrandHeader(st, date) ==
    LET s1 == Loaded(Loaded(st, 36, TRUE), 20, FALSE)
        title_font == GetFont(s1.gen, 36, TRUE)
        subtitle_font == GetFont(s1.gen, 20, FALSE)
        s2 == DrawAll(s1, << Shape("rectangle", 30, 30, 370, 80, "brand_teal"),
                             Text(40, 50, <<"BUYERS">>, title_font, "white"),
                             Text(180, 50, <<"MATCH">>, title_font, "white"),
                             Text(40, 90, <<"Buyers Advocacy">>, subtitle_font, "white") >>)
        s3 == Loaded(s2, 32, TRUE)
    IN DrawOn(s3, Text(30, 130, date, GetFont(s3.gen, 32, TRUE), "brand_brown"))

\* lines 88-107: the custom logo with the date below it, or the brand header
AddHeader(st, data, logo_image) ==
    IF st.raised THEN st
    ELSE IF ~IsNone(logo_image) THEN
        IF ResizeRaises(Val(logo_image)) THEN Raise(st)
        ELSE LET logo_resized == Resize(Val(logo_image), 180, 80)
                 s1 == DrawOn(st, Pasted("paste_logo", 30, 30, logo_resized.w,
                                         logo_resized.h, logo_resized.id))
                 date_text == GetOr(data.date, <<"DEC 2024">>)
                 s2 == Loaded(s1, 32, TRUE)
                 date_font == GetFont(s2.gen, 32, TRUE)
             IN IF logo_resized.h > 60
                THEN DrawOn(s2, Text(30, 140, date_text, date_font, "dark_brown"))
                ELSE DrawOn(s2, Text(30, 120, date_text, date_font, "dark_brown"))
    ELSE AddExactBrandHeader(st, GetOr(data.date, <<"DEC 2024">>))

\* lines 109-114 with _create_clean_circular_image
AddMainCircle(st, main_image) ==
    IF st.raised THEN st
    ELSE IF ResizeRaises(main_image) THEN Raise(st)
    ELSE LET main_circle == Resize(main_image, CircleSize, CircleSize)
             circle_x == st.gen.template_size[1] - CircleInset
         IN DrawOn(st, Pasted("paste_circle", circle_x, CircleY,
                              main_circle.w, main_circle.h, main_circle.id))

\* _add_clean_property_details
AddCleanPropertyDetails(st, data) ==
    IF st.raised THEN st
    ELSE
    LET s0 == Loaded(Loaded(Loaded(Loaded(st, 20, FALSE), 38, TRUE), 18, FALSE), 24, TRUE)
        label_font == GetFont(s0.gen, 20, FALSE)
        value_font == GetFont(s0.gen, 38, TRUE)
        small_font == GetFont(s0.gen, 18, FALSE)
        small_bold_font == GetFont(s0.gen, 24, TRUE)
        y0 == 220
        title == IF Truthy(data.property_title)
                 THEN << Text(30, y0, Val(data.property_title), small_bold_font, "dark_brown") >>
                 ELSE <<>>
        y1 == IF Truthy(data.property_title) THEN y0 + 35 ELSE y0
        property_details ==
            (IF Truthy(data.property_type) THEN << Val(data.property_type) >> ELSE <<>>)
            \o (IF Truthy(data.bedrooms) THEN << Val(data.bedrooms) \o <<" bed">> >> ELSE <<>>)
            \o (IF Truthy(data.bathrooms) THEN << Val(data.bathrooms) \o <<" bath">> >> ELSE <<>>)
        details == IF property_details # <<>>
                   THEN << Text(30, y1, Join(property_details, <<" * ">>), small_font,
                                "dark_brown") >>
                   ELSE <<>>
        y2 == IF property_details # <<>> THEN y1 + 30 ELSE y1
        location == IF Truthy(data.location)
                    THEN << Text(30, y2, Val(data.location), small_font, "dark_brown") >>
                    ELSE <<>>
        y3 == IF Truthy(data.location) THEN y2 + 35 ELSE y2
        current_y == y3 + 15
        price_y == current_y + 100
    IN DrawAll(s0, title \o details \o location \o
               << Text(30, current_y, <<"YIELD">>, label_font, "dark_brown"),
                  Text(30, current_y + 30, GetOr(data.yield, <<"5.59%">>), value_font,
                       "dark_brown"),
                  Text(30, price_y, <<"PURCHASE PRICE">>, label_font, "dark_brown"),
                  Text(30, price_y + 30, GetOr(data.purchase_price, <<"$488,000">>),
                       value_font, "dark_brown") >>)

\* _add_clean_valuation_banner
AddCleanValuationBanner(st, valuation) ==
    IF st.raised THEN st
    ELSE
    LET banner_y == 680
        banner_height == 80
        s1 == DrawOn(st, Shape("polygon", 30, banner_y, 450, banner_height, "brand_brown"))
        s2 == Loaded(Loaded(s1, 18, FALSE), 48, TRUE)
    IN DrawAll(s2, << Text(50, banner_y + 15, <<"CURRENT VALUATION">>,
                           GetFont(s2.gen, 18, FALSE), "white"),
                      Text(50, banner_y + 40, valuation, GetFont(s2.gen, 48, TRUE),
                           "white") >>)

Min(a, b) == IF a < b THEN a ELSE b

\* interior_images[:3] sliced without its bound
WholeList(images) == images
\* interior_images[:3]
FirstThree(images) == SubSeq(images, 1, Min(Len(images), InteriorMax))

\* the loop of _add_clean_interior_images from index i (0-based) on
RECURSIVE PasteInteriors(_, _, _)
PasteInteriors(st, images, i) ==
    IF i >= Len(images) THEN st
    ELSE IF ResizeRaises(images[i + 1]) THEN Raise(st)
    ELSE LET resized_img == Resize(images[i + 1], InteriorW, InteriorH)
             x_pos == InteriorStartX + (i * InteriorSpacing)
             y_pos == InteriorStartY
         IN PasteInteriors(DrawOn(st, Pasted("paste_interior", x_pos, y_pos,
                                             resized_img.w, resized_img.h, resized_img.id)),
                           images, i + 1)

\* _add_clean_interior_images
AddCleanInteriorImages(st, interiors) ==
    IF interiors = <<>> THEN st
    ELSE PasteInteriors(st, FirstThree(interiors), 0)

\* lines 122-124: interior_images is None or a list
AddInteriors(st, interiors) ==
    IF st.raised THEN st
    ELSE IF ~IsNone(interiors) /\ Val(interiors) # <<>>
         THEN AddCleanInteriorImages(st, Val(interiors))
         ELSE st

\* _add_clean_contact_info
AddCleanContactInfo(st) ==
    IF st.raised THEN st
    ELSE
    LET bar_y == 950
        bar_height == 80
        s1 == DrawOn(st, Shape("rectangle", 0, bar_y, st.gen.template_size[1], bar_height,
                               "brand_brown"))
        s2 == Loaded(s1, 24, FALSE)
        contact_font == GetFont(s2.gen, 24, FALSE)
    IN DrawAll(s2, << Text(30, bar_y + 15, <<"Contact us today">>, contact_font, "white"),
                      Text(30, bar_y + 45, <<"1300 025 376 | admin@buyersmatch.com.au">>,
                           contact_font, "white") >>)

\* _add_clean_buyersmatch_watermark; bbox is what draw.textbbox((0, 0), ...) returns.
\* The text is drawn at (text_x, text_y) of an overlay of circle_size x circle_size,
\* which is pasted at (circle_x, circle_y).
AddCleanWatermark(st, circle_x, circle_y, circle_size, bbox) ==
    IF st.raised THEN st
    ELSE
    LET s1 == Loaded(st, 65, TRUE)
        watermark_font == GetFont(s1.gen, 65, TRUE)
        text_width == bbox[3] - bbox[1]
        text_height == bbox[4] - bbox[2]
        text_x == (circle_size - text_width) \div 2
        text_y == (circle_size - text_height) \div 2
    IN DrawAll(s1, << Pasted("paste_overlay", circle_x, circle_y, circle_size, circle_size, 0),
                      Layer("watermark_text", circle_x + text_x, circle_y + text_y,
                            text_width, text_height, <<"BUYERS MATCH">>, watermark_font,
                            0, "white_100") >>)

\* line 130: the call, with the circle's position and the size it passes
AddWatermark(st, bbox) ==
    AddCleanWatermark(st, st.gen.template_size[1] - CircleInset, CircleY, WatermarkBox, bbox)

\* the font the watermark will be measured with
WatermarkFont(st) == GetFont(st.gen, 65, TRUE)

\* create_property_template as a whole: the state after the last drawing call;
\* .raised tells that a call raised, and then no template is returned.
CreatePropertyTemplate(gen, data, main_image, interiors, logo_image) ==
    LET s1 == AddSimpleDotPatterns(BaseTemplate(gen))
        s2 == AddHeader(s1, data, logo_image)
        s3 == AddMainCircle(s2, main_image)
        s4 == AddCleanPropertyDetails(s3, data)
        s5 == AddCleanValuationBanner(s4, GetOr(data.current_valuation, <<"$295,000">>))
        s6 == AddInteriors(s5, interiors)
        s7 == AddCleanContactInfo(s6)
    IN AddWatermark(s7, TextBBox(WatermarkFont(s7)))

-----------------------------------------------------------------------------
(* The protection filter (main.py 61-92) *)

\* max_angle of slightly_rotate_and_flip, in tenths of a degree
MaxAngleTenths == 3
\* random.uniform(-max_angle, max_angle), sampled at the ends and the middle
Angles == { -MaxAngleTenths, 0, MaxAngleTenths }

\* the amount protect_image_bytes passes to add_noise, in thousandths (0.005)
ProtectNoiseAmount == 5
JpegQualityTemplate == 95
JpegQualityProtected == 92

PixelsOf(picture) == IF "px" \in DOMAIN picture THEN picture.px ELSE <<>>

\* Image.open(io.BytesIO(image_bytes)) of a buffer the service encoded itself
ImageOpen(bytes) ==
    [w |-> bytes.picture.w, h |-> bytes.picture.h,
     content |-> bytes.picture, via |-> <<bytes.format, bytes.quality>>,
     px |-> PixelsOf(bytes.picture), edits |-> <<>>]

\* slightly_rotate_and_flip: img.rotate(angle, expand=False): the size is kept.
\* (A raster of a few pixels is mapped onto itself by a rotation this small.)
SlightlyRotateAndFlip(img, angle) == [img EXCEPT !.edits = Append(@, <<"rotate", angle>>)]

\* compress_and_resize(img, quality, max_size): thumbnail only when max_size is
\* given and exceeded; the image itself is returned
CompressAndResize(img, max_size) ==
    IF ~IsNone(max_size) /\ Val(max_size) # 0
       /\ (img.w > Val(max_size) \/ img.h > Val(max_size))
    THEN LET m == Val(max_size)
         IN [img EXCEPT !.w = IF img.w >= img.h THEN m ELSE (img.w * m) \div img.h,
                        !.h = IF img.h >= img.w THEN m ELSE (img.h * m) \div img.w,
                        !.edits = Append(@, <<"thumbnail", m>>)]
    ELSE img

\* int(255 * amount), the amount in thousandths
NoiseSpan(amount) == (255 * amount) \div 1000
\* np.random.randint(low, high, dtype=np.int16) raises unless low < high and
\* both ends fit the dtype: low >= -2^15 and high <= 2^15
NoiseRaises(amount) ==
    ~(-NoiseSpan(amount) < NoiseSpan(amount)) \/ NoiseSpan(amount) > 32768
\* the values np.random.randint(-span, span) draws: high is exclusive
NoiseOffsets(amount) == (-NoiseSpan(amount))..(NoiseSpan(amount) - 1)
\* the offsets followed here: both ends of the interval and the values around 0
NoiseSamples(amount) ==
    { d \in { -NoiseSpan(amount), 1 - NoiseSpan(amount), -2, -1, 0, 1, 2,
              NoiseSpan(amount) - 2, NoiseSpan(amount) - 1 } :
        -NoiseSpan(amount) <= d /\ d < NoiseSpan(amount) }
NoiseArrays(img, amount) == [1..Len(img.px) -> NoiseSamples(amount)]

\* arithmetic of dtype int16, and the cast .astype(np.uint8)
Int16(x) == ((x + 32768) % 65536) - 32768
UInt8(x) == x % 256
\* np.clip(x, 0, 255)
Clip(x) == IF x < 0 THEN 0 ELSE IF x > 255 THEN 255 ELSE x

\* one channel value: the sum cast back without np.clip
NoisyValueUnclipped(v, d) == UInt8(Int16(Int16(v) + d))
\* one channel value of line 76
NoisyValue(v, d) == UInt8(Clip(Int16(Int16(v) + d)))

\* add_noise(img, amount) with the array np.random.randint drew
AddNoise(img, amount, noise) ==
    [img EXCEPT !.px = [i \in 1..Len(img.px) |-> NoisyValue(img.px[i], noise[i])],
                !.edits = Append(@, <<"noise", NoiseSpan(amount)>>)]

\* add_watermark (main.py 31-59): not called by protect_image_bytes
AddWatermarkText(img) == [img EXCEPT !.edits = Append(@, <<"watermark", 120>>)]

\* the calls of protect_image_bytes with the watermark call still in place
ProtectProgramWithWatermark ==
    << "slightly_rotate_and_flip", "compress_and_resize", "add_noise", "add_watermark" >>
\* the calls of protect_image_bytes between Image.open and img.save, lines 83-85
ProtectProgram == << "slightly_rotate_and_flip", "compress_and_resize", "add_noise" >>

\* one call of the chain, with what the random generators drew
ApplyCall(name, img, rnd) ==
    CASE name = "slightly_rotate_and_flip" -> SlightlyRotateAndFlip(img, rnd.angle)
      [] name = "compress_and_resize" -> CompressAndResize(img, None)
      [] name = "add_noise" -> AddNoise(img, ProtectNoiseAmount, rnd.noise)
      [] name = "add_watermark" -> AddWatermarkText(img)

RECURSIVE RunCalls(_, _, _)
RunCalls(program, img, rnd) ==
    IF program = <<>> THEN img
    ELSE RunCalls(Tail(program), ApplyCall(Head(program), img, rnd), rnd)

\* what the random generators can draw for one run of the chain on img
Draws(img) == [angle : Angles, noise : NoiseArrays(img, ProtectNoiseAmount)]

\* protect_image_bytes
ProtectImageBytes(image_bytes, rnd) ==
    Encode(RunCalls(ProtectProgram, ImageOpen(image_bytes), rnd), S_JPEG, JpegQualityProtected)

-----------------------------------------------------------------------------
(* generate_marketing_post (main.py 95-226) *)

Form(date, yield_rate, purchase_price, current_valuation, property_title, property_type,
     bedrooms, bathrooms, location, apply_prot, out_fmt) ==
    [date |-> date, yield_rate |-> yield_rate, purchase_price |-> purchase_price,
     current_valuation |-> current_valuation, property_title |-> property_title,
     property_type |-> property_type, bedrooms |-> bedrooms, bathrooms |-> bathrooms,
     location |-> location, apply_protection |-> apply_prot, output_format |-> out_fmt]

Files(main_image, logo, interior1, interior2, interior3) ==
    [main_image |-> main_image, logo |-> logo,
     interior1 |-> interior1, interior2 |-> interior2, interior3 |-> interior3]

Request(method, form, files) == [method |-> method, form |-> form, files |-> files]

Response(status, kind, error, body, mimetype, download_name) ==
    [status |-> status, kind |-> kind, error |-> error, body |-> body,
     mimetype |-> mimetype, download_name |-> download_name]
JsonError(status, message) == Response(status, "json", message, None, <<>>, <<>>)

\* line 132
required_fields == << "date", "yield_rate", "purchase_price", "current_valuation" >>

\* a required field judged missing only when its key is absent
FieldAbsent(form, field) == IsNone(form[field])
\* line 133: not form_data.get(field)
FieldMissing(form, field) == ~Truthy(form[field])

RECURSIVE MissingFrom(_, _)
MissingFrom(form, fields) ==
    IF fields = <<>> THEN <<>>
    ELSE (IF FieldMissing(form, Head(fields)) THEN << Head(fields) >> ELSE <<>>)
         \o MissingFrom(form, Tail(fields))

\* line 133
MissingFields(form) == MissingFrom(form, required_fields)

\* line 137: the names joined by ', ' after the fixed prefix
MissingMessage(missing) ==
    <<"Missing required fields: ">> \o Join([i \in 1..Len(missing) |-> << missing[i] >>], <<", ">>)

\* 'key' in files and files[key].content_type.startswith('image/')
IsImageUpload(file) == ~IsNone(file) /\ StartsWith(Val(file).content_type, S_image_slash)

\* lines 159-164: the interior list built from interior1..3, and whether an
\* Image.open on the way raised
RECURSIVE ReadInteriorFiles(_, _, _)
ReadInteriorFiles(files, keys, images) ==
    IF keys = <<>> THEN [raised |-> FALSE, images |-> images]
    ELSE IF IsImageUpload(files[Head(keys)])
         THEN IF OpenRaises(Val(files[Head(keys)]).data)
              THEN [raised |-> TRUE, images |-> images]
              ELSE ReadInteriorFiles(files, Tail(keys),
                                     Append(images, OpenUpload(Val(files[Head(keys)]).data)))
         ELSE ReadInteriorFiles(files, Tail(keys), images)

InteriorKeys == << "interior1", "interior2", "interior3" >>

\* lines 167-177
PreparePropertyData(form) ==
    PropertyData(form.date, form.yield_rate, form.purchase_price, form.current_valuation,
                 form.property_title, form.property_type, form.bedrooms, form.bathrooms,
                 form.location)

\* an instance kept at module level and shared by the requests
SharedTemplate == generator
\* line 182: BuyersMatchTemplate()
NewTemplate == BuyersMatchTemplate_init

\* except clauses that would let an error through
CatchesValueErrorOnly(e) == e = "ValueError"
\* line 222: except Exception; every error the stages raise is an Exception
Catches(e) == e \in { "UnidentifiedImageError", "OSError", "KeyError", "ValueError",
                      "MemoryError" }

\* line 203 labelling the protected bytes like the unprotected ones
ContentTypeFromOutputFormat(fmt) == S_image_slash \o Lower(fmt)
\* line 203
ProtectedContentType(fmt) == S_image_jpeg
\* line 210
PlainContentType(fmt) == S_image_slash \o Lower(fmt)

\* the form value compared with 'true' as it was sent
ApplyProtectionAsSent(form) == GetOr(form.apply_protection, S_true) = S_true
\* line 191
ApplyProtection(form) == Lower(GetOr(form.apply_protection, S_true)) = S_true
\* line 192
OutputFormat(form) == Upper(GetOr(form.output_format, S_PNG))

\* line 219
DownloadName(form, fmt) ==
    <<"buyersmatch_post_">> \o ReplaceSpace(GetOr(form.date, <<"unknown">>))
        \o <<".">> \o Lower(fmt)

-----------------------------------------------------------------------------
(* The requests the handler is exercised with *)

T_date == <<"1","5"," ","D","E","C">>
T_image_png == S_image_slash \o S_png
T_text_plain == <<"t","e","x","t","/","p","l","a","i","n">>

GoodFile(id) == Some(Upload(T_image_png, FileData(id, 400, 300, "good")))
TruncatedFile(id) == Some(Upload(T_image_png, FileData(id, 400, 300, "truncated")))
GarbageFile(id) == Some(Upload(T_image_png, FileData(id, 0, 0, "garbage")))
TextFile(id) == Some(Upload(T_text_plain, FileData(id, 400, 300, "good")))
ShoutedTypeFile(id) == Some(Upload(Upper(T_image_png), FileData(id, 400, 300, "good")))

OptionalText(given) == IF given THEN Some(<<"x">>) ELSE None

FullForm(given, apply_prot, out_fmt) ==
    Form(Some(T_date), Some(<<"7","%">>), Some(<<"$","1">>), Some(<<"$","2">>),
         OptionalText(given), OptionalText(given), OptionalText(given),
         OptionalText(given), OptionalText(given), apply_prot, out_fmt)

RequiredValues == { None, Some(<<>>), Some(<<"7">>) }
ApplyProtectionValues ==
    { None, Some(S_true), Some(<<"T","r","u","e">>), Some(<<"f","a","l","s","e">>), Some(<<>>) }
OutputFormatValues ==
    { None, Some(S_png), Some(S_JPEG), Some(<<"j","p","g">>), Some(<<>>) }
MainChoices ==
    { None, TextFile(1), ShoutedTypeFile(1), GoodFile(1), GarbageFile(1), TruncatedFile(1) }
LogoChoices == { None, GoodFile(2), GarbageFile(2), TextFile(2) }
InteriorChoices ==
    { <<None, None, None>>,
      <<GoodFile(3), GoodFile(4), GoodFile(5)>>,
      <<None, GoodFile(4), None>>,
      <<TextFile(3), GoodFile(4), GoodFile(5)>>,
      <<GoodFile(3), GarbageFile(4), GoodFile(5)>>,
      <<GoodFile(3), None, TruncatedFile(5)>> }

PlainFiles == Files(GoodFile(1), None, None, None, None)

OtherMethodRequests ==
    { Request(m, FullForm(TRUE, None, None), PlainFiles) : m \in { "GET", "OPTIONS" } }
FieldRequests ==
    { Request("POST",
              Form(v[1], v[2], v[3], v[4], None, None, None, None, None, None, None),
              PlainFiles) :
        v \in RequiredValues \X RequiredValues \X RequiredValues \X RequiredValues }
FileRequests ==
    { Request("POST", FullForm(c[1], c[2], c[3]),
              Files(c[4], c[5], c[6][1], c[6][2], c[6][3])) :
        c \in BOOLEAN \X ApplyProtectionValues \X OutputFormatValues
              \X MainChoices \X LogoChoices \X InteriorChoices }

Requests == OtherMethodRequests \cup FieldRequests \cup FileRequests

\* the few requests replayed, in any order and any number of times, when the
\* completed requests are recorded
RecordedRequests ==
    { Request("GET", FullForm(TRUE, None, None), PlainFiles),
      Request("POST", FullForm(FALSE, None, None), PlainFiles),
      Request("POST", FullForm(FALSE, Some(<<"f","a","l","s","e">>), Some(S_png)), PlainFiles),
      Request("POST", FullForm(TRUE, Some(<<"n","o">>), Some(S_JPEG)),
              Files(GoodFile(1), GoodFile(2), None, None, None)),
      Request("POST", FullForm(TRUE, Some(S_true), None),
              Files(GoodFile(1), GoodFile(2), GoodFile(3), None, GoodFile(5))),
      Request("POST", FullForm(FALSE, Some(<<>>), Some(<<"j","p","g">>)), PlainFiles),
      Request("POST", FullForm(FALSE, None, None), Files(GarbageFile(1), None, None, None, None)),
      Request("POST", Form(Some(T_date), None, Some(<<>>), Some(<<"$","2">>),
                           None, None, None, None, None, None, None), PlainFiles) }

Workload == IF recording THEN RecordedRequests ELSE Requests

-----------------------------------------------------------------------------
(* The handler, one action per stage *)

locals == <<main_img, logo_img, interior_images, property_data, template_image,
            apply_protection, output_format, final_image_bytes, content_type>>
others == <<cvars, pvars, fvars, fonts_installed, recording, hist>>

HandlerIdle ==
    /\ pc = "idle" /\ req = None /\ exc = None /\ responses = <<>> /\ trace = <<>>
    /\ main_img = None /\ logo_img = None /\ interior_images = <<>>
    /\ property_data = None /\ template_image = None /\ apply_protection = FALSE
    /\ output_format = <<>> /\ final_image_bytes = None /\ content_type = <<>>

\* a response is returned: the handler is left
Respond(r) ==
    /\ responses' = Append(responses, r)
    /\ trace' = Append(trace, "response")
    /\ pc' = "responded"

\* an exception is raised inside the try block
RaiseTo(name, stages) ==
    /\ exc' = Some(name)
    /\ trace' = trace \o stages
    /\ pc' = "except"

\* the HTTP layer calls generate_marketing_post(request)
Receive ==
    /\ pc = "idle"
    /\ recording => Len(hist) < MaxHist
    /\ \E r \in Workload : req' = Some(r)
    /\ pc' = "method"
    /\ UNCHANGED <<locals, generator, exc, responses, trace, others>>

\* lines 104-121
CheckMethod ==
    /\ pc = "method"
    /\ IF Val(req).method = "OPTIONS"
       THEN Respond(Response(204, "empty", <<>>, None, <<>>, <<>>))
       ELSE IF Val(req).method # "POST"
       THEN Respond(JsonError(405, <<"Method not allowed">>))
       ELSE pc' = "validate_fields" /\ UNCHANGED <<responses, trace>>
    /\ UNCHANGED <<req, locals, generator, exc, others>>

\* lines 131-138
ValidateFields ==
    /\ pc = "validate_fields"
    /\ LET missing_fields == MissingFields(Val(req).form)
       IN IF missing_fields # <<>>
          THEN Respond(JsonError(400, MissingMessage(missing_fields)))
          ELSE pc' = "validate_main" /\ UNCHANGED <<responses, trace>>
    /\ UNCHANGED <<req, locals, generator, exc, others>>

\* lines 140-146
ValidateMainImage ==
    /\ pc = "validate_main"
    /\ IF IsNone(Val(req).files.main_image)
       THEN Respond(JsonError(400, <<"Main image is required">>))
       ELSE IF ~StartsWith(Val(Val(req).files.main_image).content_type, S_image_slash)
       THEN Respond(JsonError(400, <<"Main file must be an image">>))
       ELSE pc' = "read_main" /\ trace' = Append(trace, "validated")
            /\ UNCHANGED responses
    /\ UNCHANGED <<req, locals, generator, exc, others>>

\* lines 148-150
ReadMainImage ==
    /\ pc = "read_main"
    /\ LET data == Val(Val(req).files.main_image).data
       IN IF OpenRaises(data)
          THEN RaiseTo("UnidentifiedImageError", <<>>) /\ UNCHANGED main_img
          ELSE /\ main_img' = Some(OpenUpload(data))
               /\ pc' = "read_logo"
               /\ UNCHANGED <<exc, trace>>
    /\ UNCHANGED <<req, logo_img, interior_images, property_data, template_image,
                   apply_protection, output_format, final_image_bytes, content_type,
                   generator, responses, others>>

\* lines 152-156
ReadLogo ==
    /\ pc = "read_logo"
    /\ IF IsImageUpload(Val(req).files.logo)
       THEN IF OpenRaises(Val(Val(req).files.logo).data)
            THEN RaiseTo("UnidentifiedImageError", <<>>) /\ UNCHANGED logo_img
            ELSE /\ logo_img' = Some(OpenUpload(Val(Val(req).files.logo).data))
                 /\ pc' = "read_interiors"
                 /\ UNCHANGED <<exc, trace>>
       ELSE /\ logo_img' = None
            /\ pc' = "read_interiors"
            /\ UNCHANGED <<exc, trace>>
    /\ UNCHANGED <<req, main_img, interior_images, property_data, template_image,
                   apply_protection, output_format, final_image_bytes, content_type,
                   generator, responses, others>>

\* lines 158-164
ReadInteriors ==
    /\ pc = "read_interiors"
    /\ LET r == ReadInteriorFiles(Val(req).files, InteriorKeys, <<>>)
       IN IF r.raised
          THEN RaiseTo("UnidentifiedImageError", <<>>) /\ UNCHANGED interior_images
          ELSE /\ interior_images' = r.images
               /\ pc' = "prepare"
               /\ UNCHANGED <<exc, trace>>
    /\ UNCHANGED <<req, main_img, logo_img, property_data, template_image,
                   apply_protection, output_format, final_image_bytes, content_type,
                   generator, responses, others>>

\* lines 166-179
PrepareData ==
    /\ pc = "prepare"
    /\ property_data' = Some(PreparePropertyData(Val(req).form))
    /\ pc' = "generate"
    /\ UNCHANGED <<req, main_img, logo_img, interior_images, template_image,
                   apply_protection, output_format, final_image_bytes, content_type,
                   generator, exc, responses, trace, others>>

\* lines 181-188
GenerateTemplate ==
    /\ pc = "generate"
    /\ LET st == CreatePropertyTemplate(NewTemplate, Val(property_data), Val(main_img),
                                        IF interior_images # <<>>
                                        THEN Some(interior_images) ELSE None,
                                        logo_img)
       IN /\ generator' = st.gen
          /\ IF st.raised
             THEN RaiseTo("OSError", <<"compose_call">>) /\ UNCHANGED template_image
             ELSE /\ template_image' = Some(st.template)
                  /\ trace' = trace \o <<"compose_call", "compose_ret">>
                  /\ pc' = "options"
                  /\ UNCHANGED exc
    /\ UNCHANGED <<req, main_img, logo_img, interior_images, property_data,
                   apply_protection, output_format, final_image_bytes, content_type,
                   responses, others>>

\* lines 190-194
ReadOptions ==
    /\ pc = "options"
    /\ apply_protection' = ApplyProtection(Val(req).form)
    /\ output_format' = OutputFormat(Val(req).form)
    /\ pc' = IF apply_protection' THEN "protect" ELSE "encode"
    /\ UNCHANGED <<req, main_img, logo_img, interior_images, property_data, template_image,
                   final_image_bytes, content_type, generator, exc, responses, trace,
                   others>>

\* lines 195-203; the imaging library may fail for want of memory
Protect ==
    /\ pc = "protect"
    /\ LET temp == Encode(Val(template_image), S_JPEG, JpegQualityTemplate)
       IN \E failed \in BOOLEAN :
            IF failed
            THEN RaiseTo("MemoryError", <<"protect_call">>)
                 /\ UNCHANGED <<final_image_bytes, content_type>>
            ELSE \E rnd \in Draws(ImageOpen(temp)) :
                    /\ final_image_bytes' = Some(ProtectImageBytes(temp, rnd))
                    /\ content_type' = ProtectedContentType(output_format)
                    /\ trace' = trace \o <<"protect_call", "protect_ret", "encoded">>
                    /\ pc' = "send"
                    /\ UNCHANGED exc
    /\ UNCHANGED <<req, main_img, logo_img, interior_images, property_data, template_image,
                   apply_protection, output_format, generator, responses, others>>

\* lines 204-210
EncodePlain ==
    /\ pc = "encode"
    /\ IF SaveRaises(output_format)
       THEN RaiseTo(IF output_format = <<>> THEN "ValueError" ELSE "KeyError", <<>>)
            /\ UNCHANGED <<final_image_bytes, content_type>>
       ELSE /\ final_image_bytes' =
                   Some(Encode(Val(template_image), output_format, JpegQualityTemplate))
            /\ content_type' = PlainContentType(output_format)
            /\ trace' = Append(trace, "encoded")
            /\ pc' = "send"
            /\ UNCHANGED exc
    /\ UNCHANGED <<req, main_img, logo_img, interior_images, property_data, template_image,
                   apply_protection, output_format, generator, responses, others>>

\* lines 212-220; send_file may fail too
SendFile ==
    /\ pc = "send"
    /\ \E failed \in BOOLEAN :
         IF failed
         THEN RaiseTo("MemoryError", <<>>) /\ UNCHANGED responses
         ELSE Respond(Response(200, "file", <<>>, final_image_bytes, content_type,
                               DownloadName(Val(req).form, output_format)))
              /\ UNCHANGED exc
    /\ UNCHANGED <<req, locals, generator, others>>

\* lines 222-226
Except ==
    /\ pc = "except"
    /\ IF Catches(Val(exc))
       THEN Respond(JsonError(500, <<"Error generating marketing post: ", Val(exc)>>))
       ELSE pc' = "propagated" /\ UNCHANGED <<responses, trace>>
    /\ UNCHANGED <<req, locals, generator, exc, others>>

\* what is remembered of a completed request
Completed ==
    [req |-> Val(req),
     args |-> IF template_image # None
              THEN Some([data |-> Val(property_data), main |-> Val(main_img),
                         interiors |-> interior_images, logo |-> logo_img])
              ELSE None,
     canvas |-> template_image,
     responses |-> responses]

\* the handler's frame is gone: its locals with it
Return ==
    /\ pc \in { "responded", "propagated" }
    /\ pc' = "idle" /\ req' = None /\ exc' = None /\ responses' = <<>> /\ trace' = <<>>
    /\ main_img' = None /\ logo_img' = None /\ interior_images' = <<>>
    /\ property_data' = None /\ template_image' = None /\ apply_protection' = FALSE
    /\ output_format' = <<>> /\ final_image_bytes' = None /\ content_type' = <<>>
    /\ hist' = IF recording THEN Append(hist, Completed) ELSE hist
    /\ UNCHANGED <<generator, cvars, pvars, fvars, fonts_installed, recording>>

CompositorIdle == c_pc = "off" /\ c_in = None /\ c_st = None /\ c_bbox = None
ProtectIdle ==
    /\ p_pc = "off" /\ p_bytes = None /\ p_img = None /\ p_i = 0
    /\ p_log = <<>> /\ p_out = None /\ p_amount = 0
FontIdle == f_pc = "off" /\ f_gen = None /\ f_log = <<>>

Init ==
    /\ HandlerIdle /\ CompositorIdle /\ ProtectIdle /\ FontIdle
    /\ generator = BuyersMatchTemplate_init
    /\ hist = <<>>
    /\ recording = FALSE
    /\ fonts_installed \in FontEnvs

Next ==
    \/ Receive \/ CheckMethod \/ ValidateFields \/ ValidateMainImage
    \/ ReadMainImage \/ ReadLogo \/ ReadInteriors \/ PrepareData
    \/ GenerateTemplate \/ ReadOptions \/ Protect \/ EncodePlain
    \/ SendFile \/ Except \/ Return

Spec == Init /\ [][Next]_vars

InitRecorded ==
    /\ HandlerIdle /\ CompositorIdle /\ ProtectIdle /\ FontIdle
    /\ generator = BuyersMatchTemplate_init
    /\ hist = <<>>
    /\ recording = TRUE
    /\ fonts_installed \in FontEnvs

SpecRecorded == InitRecorded /\ [][Next]_vars

-----------------------------------------------------------------------------
(* create_property_template called on its own, one action per drawing call *)

Picture(id, w, h, loads) == [id |-> id, w |-> w, h |-> h, loads |-> loads]

\* what draw.textbbox can return for the watermark: narrower and wider than the
\* overlay, with and without bearings
BBoxes ==
    { <<o[1], o[2], o[1] + w, o[2] + h>> :
        o \in { <<0, 0>>, <<3, 14>> }, w \in { 72, 499, 543 }, h \in { 9, 48 } }

DataChoices ==
    { PropertyData(IF d[1] THEN Some(T_date) ELSE None, Some(<<"7","%">>), Some(<<"$","1">>),
                   IF d[1] THEN Some(<<"$","2">>) ELSE None,
                   d[2], OptionalText(d[3] # "none"), OptionalText(d[3] = "all"),
                   OptionalText(d[3] = "all"), OptionalText(d[4])) :
        d \in BOOLEAN \X { None, Some(<<>>), Some(<<"x">>) } \X { "none", "type", "all" }
              \X BOOLEAN }

MainPictures == { Picture(1, 1, 1, TRUE), Picture(1, 4000, 3000, TRUE),
                  Picture(1, 400, 300, FALSE) }
LogoPictures == { None, Some(Picture(2, 500, 100, TRUE)) }

\* the three interior uploads a request can carry
InteriorUploads ==
    { Files(None, None, f[1], f[2], f[3]) :
        f \in { None, TextFile(3), GoodFile(3) } \X { None, TextFile(4), GoodFile(4) }
              \X { None, TextFile(5), GoodFile(5) } }

\* lines 158-164 and 186: the argument the handler passes for these uploads
InteriorArgument(files) ==
    LET images == ReadInteriorFiles(files, InteriorKeys, <<>>).images
    IN IF images # <<>> THEN Some(images) ELSE None

\* lists handed to the compositor by other callers, longer than three too
DirectInteriors ==
    { None, Some(<<>>),
      Some(<< Picture(3, 80, 60, TRUE), Picture(4, 80, 60, FALSE) >>) }
    \cup { Some([i \in 1..n |-> Picture(2 + i, 200 * i, 100, TRUE)]) : n \in 1..MaxInteriors }

CompositorInputs ==
    { [data |-> d, main |-> m, logo |-> l, files |-> Some(f),
       interiors |-> InteriorArgument(f)] :
        d \in DataChoices, m \in MainPictures, l \in LogoPictures, f \in InteriorUploads }
    \cup
    { [data |-> d, main |-> m, logo |-> l, files |-> None, interiors |-> i] :
        d \in DataChoices, m \in MainPictures, l \in LogoPictures, i \in DirectInteriors }

CStep(st, next) ==
    /\ c_st' = Some(st)
    /\ c_pc' = IF st.raised THEN "raised" ELSE next
    /\ UNCHANGED <<c_in, hvars, pvars, fvars, fonts_installed>>

C_New ==
    /\ c_pc = "call"
    /\ CStep(BaseTemplate(NewTemplate), "dots") /\ UNCHANGED c_bbox
C_Dots ==
    /\ c_pc = "dots"
    /\ CStep(AddSimpleDotPatterns(Val(c_st)), "header") /\ UNCHANGED c_bbox
C_Header ==
    /\ c_pc = "header"
    /\ CStep(AddHeader(Val(c_st), Val(c_in).data, Val(c_in).logo), "circle")
    /\ UNCHANGED c_bbox
C_Circle ==
    /\ c_pc = "circle"
    /\ CStep(AddMainCircle(Val(c_st), Val(c_in).main), "details") /\ UNCHANGED c_bbox
C_Details ==
    /\ c_pc = "details"
    /\ CStep(AddCleanPropertyDetails(Val(c_st), Val(c_in).data), "banner")
    /\ UNCHANGED c_bbox
C_Banner ==
    /\ c_pc = "banner"
    /\ CStep(AddCleanValuationBanner(Val(c_st),
                                     GetOr(Val(c_in).data.current_valuation, <<"$295,000">>)),
             "interiors")
    /\ UNCHANGED c_bbox
C_Interiors ==
    /\ c_pc = "interiors"
    /\ CStep(AddInteriors(Val(c_st), Val(c_in).interiors), "contact") /\ UNCHANGED c_bbox
C_Contact ==
    /\ c_pc = "contact"
    /\ CStep(AddCleanContactInfo(Val(c_st)), "watermark") /\ UNCHANGED c_bbox
C_Watermark ==
    /\ c_pc = "watermark"
    /\ \E bbox \in BBoxes :
         /\ c_bbox' = Some(bbox)
         /\ CStep(AddWatermark(Val(c_st), bbox), "returned")

InitCompositor ==
    /\ HandlerIdle /\ ProtectIdle /\ FontIdle
    /\ generator = BuyersMatchTemplate_init
    /\ hist = <<>> /\ recording = FALSE
    /\ fonts_installed \in FontEnvs
    /\ c_pc = "call" /\ c_st = None /\ c_bbox = None
    /\ \E i \in CompositorInputs : c_in = Some(i)

NextCompositor ==
    \/ C_New \/ C_Dots \/ C_Header \/ C_Circle \/ C_Details
    \/ C_Banner \/ C_Interiors \/ C_Contact \/ C_Watermark

SpecCompositor == InitCompositor /\ [][NextCompositor]_vars

-----------------------------------------------------------------------------
(* protect_image_bytes and add_noise called on their own *)

PixelSamples == { 0, 1, 127, 254, 255 }
\* amounts in thousandths: 0.003 (the span is 0), 0.005, 0.008, 0.012, and the
\* largest ones: 127.6 (the span is 32538) and 128.6 (the span exceeds 2^15)
Amounts == { 3, 5, 8, 12, 127600, 128600 }

SmallRasters ==
    UNION { { [w |-> n, h |-> 1, px |-> px] : px \in [1..n -> PixelSamples] } :
            n \in 1..MaxPixels }

Call(name, input, rnd, output) ==
    [call |-> name, input |-> input,
     noise |-> IF name = "add_noise" THEN rnd.noise ELSE <<>>, output |-> output]

\* line 81
P_Open ==
    /\ p_pc = "open"
    /\ p_img' = Some(ImageOpen(Val(p_bytes)))
    /\ p_i' = 1
    /\ p_pc' = "calls"
    /\ UNCHANGED <<p_bytes, p_log, p_out, p_amount, hvars, cvars, fvars,
                   fonts_installed>>

\* lines 83-85, one call at a time
P_Call ==
    /\ p_pc = "calls"
    /\ p_i <= Len(ProtectProgram)
    /\ \E rnd \in Draws(Val(p_img)) :
         LET out == ApplyCall(ProtectProgram[p_i], Val(p_img), rnd)
         IN /\ p_log' = Append(p_log, Call(ProtectProgram[p_i], Val(p_img), rnd, out))
            /\ p_img' = Some(out)
    /\ p_i' = p_i + 1
    /\ UNCHANGED <<p_pc, p_bytes, p_out, p_amount, hvars, cvars, fvars,
                   fonts_installed>>

\* lines 88-92
P_Save ==
    /\ p_pc = "calls"
    /\ p_i > Len(ProtectProgram)
    /\ p_out' = Some(Encode(Val(p_img), S_JPEG, JpegQualityProtected))
    /\ p_pc' = "done"
    /\ UNCHANGED <<p_bytes, p_img, p_i, p_log, p_amount, hvars, cvars, fvars,
                   fonts_installed>>

\* add_noise(img, amount) called directly
P_AddNoise ==
    /\ p_pc = "noise"
    /\ IF NoiseRaises(p_amount)
       THEN p_pc' = "raised" /\ UNCHANGED <<p_img, p_log>>
       ELSE \E noise \in NoiseArrays(Val(p_img), p_amount) :
              LET out == AddNoise(Val(p_img), p_amount, noise)
              IN /\ p_log' = Append(p_log, Call("add_noise", Val(p_img),
                                                [noise |-> noise], out))
                 /\ p_img' = Some(out)
                 /\ p_pc' = "noised"
    /\ UNCHANGED <<p_bytes, p_i, p_out, p_amount, hvars, cvars, fvars,
                   fonts_installed>>

InitProtect ==
    /\ HandlerIdle /\ CompositorIdle /\ FontIdle
    /\ generator = BuyersMatchTemplate_init
    /\ hist = <<>> /\ recording = FALSE
    /\ fonts_installed = {}
    /\ p_i = 0 /\ p_log = <<>> /\ p_out = None
    /\ \/ /\ p_pc = "open"
          /\ \E r \in SmallRasters : p_bytes = Some(Encode(r, S_JPEG, JpegQualityTemplate))
          /\ p_img = None
          /\ p_amount = ProtectNoiseAmount
       \/ /\ p_pc = "noise"
          /\ p_bytes = None
          /\ \E r \in SmallRasters :
               p_img = Some([w |-> r.w, h |-> r.h, content |-> r, via |-> <<>>,
                             px |-> r.px, edits |-> <<>>])
          /\ p_amount \in Amounts

NextProtect == P_Open \/ P_Call \/ P_Save \/ P_AddNoise

SpecProtect == InitProtect /\ [][NextProtect]_vars

-----------------------------------------------------------------------------
(* _get_font called on its own, any number of times on one instance *)

MaxFontCalls == 3
\* the sizes create_property_template asks for at lines 161, 162 and 298
FontSizes == { 20, 36, 65 }
\* machines with no font, with one font of each weight at different places of
\* the lists, with the last candidates only, and with every candidate
FontMachines ==
    FontEnvs \cup { { "arialbd.ttf", "arial.ttf" },
                    { BoldFontPaths[i] : i \in 1..3 } \cup { RegularFontPaths[i] : i \in 1..3 } }

FontCall(size, bold, before, after, font, attempts) ==
    [size |-> size, bold |-> bold, before |-> before, after |-> after,
     font |-> font, attempts |-> attempts]

\* one call self._get_font(size, bold)
F_GetFont ==
    /\ f_pc = "ready"
    /\ Len(f_log) < MaxFontCalls
    /\ \E size \in FontSizes, bold \in BOOLEAN :
         /\ f_gen' = Some(GetFontGen(Val(f_gen), size, bold))
         /\ f_log' = Append(f_log,
                            FontCall(size, bold, Val(f_gen).font_cache,
                                     GetFontGen(Val(f_gen), size, bold).font_cache,
                                     GetFont(Val(f_gen), size, bold),
                                     GetFontAttempts(Val(f_gen), size, bold)))
    /\ UNCHANGED <<f_pc, hvars, cvars, pvars, fonts_installed>>

InitFont ==
    /\ HandlerIdle /\ CompositorIdle /\ ProtectIdle
    /\ generator = BuyersMatchTemplate_init
    /\ hist = <<>> /\ recording = FALSE
    /\ fonts_installed \in FontMachines
    /\ f_pc = "ready" /\ f_gen = Some(BuyersMatchTemplate_init) /\ f_log = <<>>

NextFont == F_GetFont

SpecFont == InitFont /\ [][NextFont]_vars

-----------------------------------------------------------------------------
(* Properties of generate_marketing_post *)

Count(seq, e) == Cardinality({ i \in 1..Len(seq) : seq[i] = e })
Occurs(seq, e) == \E i \in 1..Len(seq) : seq[i] = e
\* every e1 in seq has an e2 somewhere before it
Precedes(seq, e2, e1) ==
    \A i \in 1..Len(seq) : seq[i] = e1 => \E j \in 1..(i - 1) : seq[j] = e2

Handling == pc # "idle"
TheForm == Val(req).form
TheFiles == Val(req).files

IsBlank(m) == m = <<>> \/ m = << <<>> >>
FieldsGiven ==
    /\ ~IsBlank(TheForm.date) /\ ~IsBlank(TheForm.yield_rate)
    /\ ~IsBlank(TheForm.purchase_price) /\ ~IsBlank(TheForm.current_valuation)
MainGiven ==
    /\ TheFiles.main_image # <<>>
    /\ Len(TheFiles.main_image[1].content_type) >= 6
    /\ SubSeq(TheFiles.main_image[1].content_type, 1, 6) = <<"i","m","a","g","e","/">>
PassesValidation == Val(req).method = "POST" /\ FieldsGiven /\ MainGiven

\* the form field apply_protection, lower-cased, is 'true'; absent counts as 'true'
ProtectionRequested ==
    \/ TheForm.apply_protection = <<>>
    \/ /\ TheForm.apply_protection # <<>>
       /\ TheForm.apply_protection[1] \in
            { <<a, b, c, d>> : a \in {"t","T"}, b \in {"r","R"}, c \in {"u","U"}, d \in {"e","E"} }

Answered == pc = "responded"
TheResponse == responses[1]

\* C1 as stated: every POST request that passes validation runs the compositor
\* exactly once, then the protection filter exactly when apply_protection
\* (lower-cased, 'true' when absent) is 'true', and only then produces its response.
C1_EveryValidRequestRunsTheStages ==
    (Answered /\ PassesValidation) =>
        /\ Count(trace, "compose_call") = 1
        /\ Count(trace, "protect_call") <= 1
        /\ Precedes(trace, "compose_ret", "protect_call")
        /\ Occurs(trace, "protect_call") <=> ProtectionRequested

\* C1 amended: while a validated POST request is handled the compositor is
\* entered at most once and the protection filter at most once, the filter only
\* after the compositor has returned and only when protection is requested, and
\* bytes are encoded only after them; a request answered without any exception
\* (and every request answered with the image, status 200) has run the
\* compositor exactly once and the filter exactly when protection is requested.
C1_StagesInOrder ==
    (Handling /\ PassesValidation) =>
        /\ Count(trace, "compose_call") <= 1
        /\ Count(trace, "protect_call") <= 1
        /\ Precedes(trace, "compose_ret", "protect_call")
        /\ Occurs(trace, "protect_call") => ProtectionRequested
        /\ Precedes(trace, "compose_ret", "encoded")
        /\ ProtectionRequested => Precedes(trace, "protect_ret", "encoded")
        /\ Precedes(trace, "encoded", "response") \/ exc # None \/ ~Answered
        /\ (Answered /\ (exc = None \/ TheResponse.status = 200)) =>
              /\ exc = None /\ TheResponse.status = 200
              /\ Count(trace, "compose_call") = 1 /\ Count(trace, "compose_ret") = 1
              /\ Occurs(trace, "protect_ret") <=> ProtectionRequested
              /\ Count(trace, "encoded") = 1

C1_Witness ==
    /\ Answered /\ PassesValidation
    /\ TheForm.apply_protection = Some(<<"T","r","u","e">>)
    /\ TheResponse.status = 200
    /\ trace = <<"validated", "compose_call", "compose_ret", "protect_call", "protect_ret",
                 "encoded", "response">>

\* the required fields that are absent or empty, in the order of the list
BlankNames ==
    (IF IsBlank(TheForm.date) THEN <<"date">> ELSE <<>>)
    \o (IF IsBlank(TheForm.yield_rate) THEN <<"yield_rate">> ELSE <<>>)
    \o (IF IsBlank(TheForm.purchase_price) THEN <<"purchase_price">> ELSE <<>>)
    \o (IF IsBlank(TheForm.current_valuation) THEN <<"current_valuation">> ELSE <<>>)

RECURSIVE CommaList(_)
CommaList(names) ==
    IF Len(names) <= 1 THEN names
    ELSE <<names[1], ", ">> \o CommaList(Tail(names))

NeverComposed ==
    /\ ~Occurs(trace, "compose_call") /\ ~Occurs(trace, "protect_call")
    /\ template_image = None /\ final_image_bytes = None

\* C3: a POST request with a required field absent or empty is answered 400 with
\* a message naming exactly the missing fields in the fixed order; one with all
\* four fields but no main_image, or a main_image whose content type does not
\* start with 'image/', is answered 400; none of them reaches the compositor or
\* the protection filter.
C3_InvalidRequestsAreRefused ==
    (Handling /\ Val(req).method = "POST" /\ ~PassesValidation) =>
        /\ NeverComposed
        /\ exc = None
        /\ Answered =>
              /\ Len(responses) = 1
              /\ TheResponse.status = 400 /\ TheResponse.kind = "json"
              /\ TheResponse.body = None
              /\ ~FieldsGiven =>
                    TheResponse.error = <<"Missing required fields: ">> \o CommaList(BlankNames)
              /\ FieldsGiven => TheResponse.error \in { <<"Main image is required">>,
                                                       <<"Main file must be an image">> }

C3_Witness ==
    /\ Answered /\ Val(req).method = "POST"
    /\ TheForm.date = Some(<<>>) /\ TheForm.purchase_price = None
    /\ ~IsBlank(TheForm.yield_rate) /\ ~IsBlank(TheForm.current_valuation)
    /\ TheResponse.status = 400
    /\ TheResponse.error = <<"Missing required fields: ", "date", ", ", "purchase_price">>

\* C4: an exception raised after the method check yields exactly one response,
\* status 500 with a JSON error body and no image bytes; it does not leave the
\* handler, and no stage is run again.
C4_CatchAll ==
    /\ Len(responses) <= 1
    /\ Count(trace, "compose_call") <= 1 /\ Count(trace, "protect_call") <= 1
    /\ pc # "propagated"
    /\ (Handling /\ exc # None) =>
          /\ pc \in { "except", "responded" }
          /\ pc = "except" => responses = <<>>
          /\ Answered =>
                /\ Len(responses) = 1
                /\ TheResponse.status = 500 /\ TheResponse.kind = "json"
                /\ TheResponse.error # <<>>
                /\ TheResponse.body = None /\ TheResponse.mimetype = <<>>
    /\ (Answered /\ TheResponse.status = 500) => exc # None

C4_Witness ==
    /\ Answered /\ exc = Some("OSError")
    /\ Occurs(trace, "compose_call") /\ ~Occurs(trace, "compose_ret")
    /\ TheResponse.status = 500

\* C7: a successful response carries one encoded buffer and a content type that
\* names the format of the bytes: JPEG and image/jpeg when protection was
\* applied, whatever output_format says; otherwise the upper-cased output_format
\* (PNG when absent) and image/ followed by the format in lower case.
C7_LabelNamesTheEncoding ==
    (Answered /\ TheResponse.status = 200) =>
        /\ Len(responses) = 1
        /\ TheResponse.body # None
        /\ LET bytes == TheResponse.body[1]
               asked == IF TheForm.output_format = <<>> THEN <<"P","N","G">>
                        ELSE TheForm.output_format[1]
           IN /\ TheResponse.mimetype = <<"i","m","a","g","e","/">> \o Lower(bytes.format)
              /\ Occurs(trace, "protect_ret") =>
                    /\ bytes.format = <<"J","P","E","G">>
                    /\ TheResponse.mimetype = <<"i","m","a","g","e","/","j","p","e","g">>
              /\ ~Occurs(trace, "protect_ret") =>
                    /\ bytes.format = Upper(asked)
                    /\ TheResponse.mimetype = <<"i","m","a","g","e","/">> \o Lower(asked)

C7_Witness ==
    /\ Answered /\ TheResponse.status = 200
    /\ Occurs(trace, "protect_ret")
    /\ TheForm.output_format = Some(<<"p","n","g">>)
    /\ TheResponse.body[1].format = <<"J","P","E","G">>
    /\ TheResponse.mimetype = <<"i","m","a","g","e","/","j","p","e","g">>

-----------------------------------------------------------------------------
(* Properties of protect_image_bytes and add_noise *)

CallNames == [i \in 1..Len(p_log) |-> p_log[i].call]
IsPrefix(s, t) == Len(s) <= Len(t) /\ SubSeq(t, 1, Len(s)) = s
\* the i-th call was handed what the call before it returned
Chained(i) ==
    p_log[i].input = (IF i = 1 THEN ImageOpen(Val(p_bytes)) ELSE p_log[i - 1].output)
EditNames(img) == { img.edits[i][1] : i \in 1..Len(img.edits) }
RunsTheChain == ~IsNone(p_bytes)

\* C5: protect_image_bytes calls the rotation, then the resizing, then the noise
\* injection, each once and in this order, each on the image the previous call
\* returned (the first on the opened input); it encodes only after the three
\* calls, the image the last call returned, always as JPEG with quality 92; no
\* watermark is drawn anywhere along the chain.
C5_ChainInOrder ==
    RunsTheChain =>
        /\ IsPrefix(CallNames,
                    << "slightly_rotate_and_flip", "compress_and_resize", "add_noise" >>)
        /\ \A i \in 1..Len(p_log) : Chained(i)
        /\ \A i \in 1..Len(p_log) : "watermark" \notin EditNames(p_log[i].output)
        /\ IsNone(p_out) <=> p_pc # "done"
        /\ p_pc = "done" =>
             /\ CallNames = << "slightly_rotate_and_flip", "compress_and_resize", "add_noise" >>
             /\ Val(p_out).picture = p_log[3].output
             /\ Val(p_out).format = S_JPEG
             /\ Val(p_out).quality = 92
             /\ p_log[1].output.edits = << <<"rotate", p_log[1].output.edits[1][2]>> >>
             /\ p_log[2].output = p_log[2].input
             /\ p_log[3].output.edits[2][1] = "noise"

\* a finished run on a raster of two pixels whose noise changed a pixel
C5_Witness ==
    /\ RunsTheChain /\ p_pc = "done"
    /\ Len(p_log) = 3
    /\ Len(p_log[3].input.px) = 2
    /\ p_log[3].output.px # p_log[3].input.px
    /\ p_log[1].output.edits[1][2] # 0

NoiseCalls == { i \in 1..Len(p_log) : p_log[i].call = "add_noise" }
\* int(255 * amount) of the amount the call was given
SpanOf(amount) == (255 * amount) \div 1000
Abs(x) == IF x < 0 THEN -x ELSE x
\* the sum of a value and its offset, cut to 0..255, in unbounded integers
CutSum(v, d) == IF v + d < 0 THEN 0 ELSE IF v + d > 255 THEN 255 ELSE v + d
\* what the claim says of one call of add_noise with the given amount
NoiseBounded(c, amount) ==
    /\ Len(c.output.px) = Len(c.input.px)
    /\ c.output.w = c.input.w /\ c.output.h = c.input.h
    /\ \A k \in 1..Len(c.input.px) :
         /\ -SpanOf(amount) <= c.noise[k] /\ c.noise[k] < SpanOf(amount)
         /\ c.output.px[k] \in 0..255
         /\ c.output.px[k] = CutSum(c.input.px[k], c.noise[k])
         /\ amount = 5 => Abs(c.output.px[k] - c.input.px[k]) <= 1

\* add_noise for every amount: each output value is the clipped sum of the input
\* value and an offset in [-int(255*amount), int(255*amount)), none wraps around
C10_NoiseBoundedForEveryAmount ==
    \A i \in NoiseCalls : NoiseBounded(p_log[i], p_amount)

\* the largest sum the int16 arithmetic of line 76 can hold: 255 + (span - 1)
FitsInt16(amount) == 255 + (SpanOf(amount) - 1) <= 32767

\* C10: add_noise(img, amount) returns only when 1 <= int(255*amount) <= 32768;
\* when moreover 255 + int(255*amount) - 1 <= 32767 it adds to every channel value
\* an offset d with -int(255*amount) <= d < int(255*amount) and clips the sum to
\* 0..255: every output value is in 0..255, none wraps around, the shape is
\* kept; with the amount 0.005 every value differs from its input by at most 1.
C10_NoiseBoundedAndClipped ==
    /\ p_pc = "raised" => (SpanOf(p_amount) < 1 \/ SpanOf(p_amount) > 32768)
    /\ p_pc = "noised" => (1 <= SpanOf(p_amount) /\ SpanOf(p_amount) <= 32768)
    /\ \A i \in NoiseCalls :
         /\ Len(p_log[i].output.px) = Len(p_log[i].input.px)
         /\ \A k \in 1..Len(p_log[i].input.px) : p_log[i].output.px[k] \in 0..255
         /\ FitsInt16(p_amount) => NoiseBounded(p_log[i], p_amount)

\* a call that clipped at both ends: one sum below 0 and one above 255
C10_Witness ==
    /\ p_pc = "noised"
    /\ FitsInt16(p_amount)
    /\ \E i \in NoiseCalls :
         /\ \E k \in 1..Len(p_log[i].input.px) : p_log[i].input.px[k] + p_log[i].noise[k] < 0
         /\ \E k \in 1..Len(p_log[i].input.px) : p_log[i].input.px[k] + p_log[i].noise[k] > 255

-----------------------------------------------------------------------------
(* Properties of create_property_template *)

Called == ~IsNone(c_in)
Canvas == Val(c_st).template
LayersOf(kind) == SelectSeq(Canvas.layers, LAMBDA l : l.op = kind)
GivenInteriors == IF IsNone(Val(c_in).interiors) THEN <<>> ELSE Val(Val(c_in).interiors)
AllLoad ==
    /\ Val(c_in).main.loads
    /\ IsNone(Val(c_in).logo) \/ Val(Val(c_in).logo).loads
    /\ \A i \in 1..Len(GivenInteriors) : i <= 3 => GivenInteriors[i].loads

\* C2: from Image.new on, the canvas of create_property_template is 1080 wide and
\* 1080 high after every drawing call, whatever the main image's size, the
\* number of interior images, the logo and the optional fields; the call returns
\* one canvas of that size whenever every picture it resizes can be loaded.
C2_CanvasKeepsItsSize ==
    Called =>
        /\ ~IsNone(c_st) => (Canvas.w = 1080 /\ Canvas.h = 1080)
        /\ c_pc = "returned" => (~IsNone(c_st) /\ ~Val(c_st).raised)
        /\ c_pc = "raised" => ~AllLoad
        /\ c_pc # "call" => ~IsNone(c_st)

\* returned for a main image larger than the canvas, a logo, four interiors and
\* no optional field
C2_Witness ==
    /\ Called /\ c_pc = "returned"
    /\ Val(c_in).main.w > 1080 /\ Val(c_in).main.h > 1080
    /\ ~IsNone(Val(c_in).logo)
    /\ Len(GivenInteriors) > 3
    /\ IsNone(Val(c_in).data.location)
    /\ Len(LayersOf("paste_circle")) = 1

\* the uploads interior1..interior3 that are present and of an image type
SlotUploads(files) ==
    SelectSeq(<< files.interior1, files.interior2, files.interior3 >>,
              LAMBDA f : /\ f # <<>>
                         /\ Len(f[1].content_type) >= 6
                         /\ SubSeq(f[1].content_type, 1, 6) = <<"i","m","a","g","e","/">>)
InteriorsDone == c_pc \in { "contact", "watermark", "returned" }
Least(a, b) == IF a <= b THEN a ELSE b

\* C8: the interior thumbnails on the canvas are the first min(n, 3) images of
\* the list, in list order, the i-th (0-based) 120x90 at (30 + 140*i, 800); they
\* do not overlap and lie inside the canvas; nothing is pasted before the step
\* or for a None or empty list; a list built by the handler holds the image
\* uploads interior1, interior2, interior3 in this order, without gaps.
C8_AtMostThreeInteriors ==
    (Called /\ ~IsNone(c_st)) =>
        LET pasted == LayersOf("paste_interior")
        IN /\ Len(pasted) <= Least(Len(GivenInteriors), 3)
           /\ InteriorsDone => Len(pasted) = Least(Len(GivenInteriors), 3)
           /\ c_pc \in { "dots", "header", "circle", "details", "banner", "interiors" }
                 => pasted = <<>>
           /\ \A i \in 1..Len(pasted) :
                /\ pasted[i].src = GivenInteriors[i].id
                /\ pasted[i].x = 30 + 140 * (i - 1) /\ pasted[i].y = 800
                /\ pasted[i].w = 120 /\ pasted[i].h = 90
                /\ pasted[i].x >= 0 /\ pasted[i].x + pasted[i].w <= Canvas.w
                /\ pasted[i].y >= 0 /\ pasted[i].y + pasted[i].h <= Canvas.h
                /\ \A j \in 1..Len(pasted) : i < j => pasted[i].x + pasted[i].w <= pasted[j].x
           /\ ~IsNone(Val(c_in).files) =>
                LET slots == SlotUploads(Val(Val(c_in).files))
                IN /\ Len(GivenInteriors) = Len(slots)
                   /\ \A i \in 1..Len(slots) : GivenInteriors[i].id = slots[i][1].data.id

\* a list of more than three images, of which three were pasted
C8_Witness ==
    /\ Called /\ c_pc = "returned"
    /\ Len(GivenInteriors) > 3
    /\ Len(LayersOf("paste_interior")) = 3
    /\ LayersOf("paste_interior")[3].src = GivenInteriors[3].id

\* C9: the watermark text is the last layer of the returned canvas, drawn after
\* the circular photo and everything else, and the centre of its text box is,
\* to within one pixel, the centre of the 650-pixel photo pasted at (450, 100).
C9_WatermarkLastAndCentred ==
    (Called /\ c_pc = "returned") =>
        LET last == Canvas.layers[Len(Canvas.layers)]
            circle == LayersOf("paste_circle")[1]
        IN /\ last.op = "watermark_text"
           /\ Len(LayersOf("watermark_text")) = 1
           /\ circle.x = 1080 - 630 /\ circle.y = 100 /\ circle.w = 650 /\ circle.h = 650
           /\ Abs((2 * last.x + last.w) - (2 * circle.x + circle.w)) <= 2
           /\ Abs((2 * last.y + last.h) - (2 * circle.y + circle.h)) <= 2

-----------------------------------------------------------------------------
(* Properties across requests *)

\* the request asks for protection: apply_protection absent or 'true' in any case
AsksProtection(r) ==
    \/ r.form.apply_protection = <<>>
    \/ /\ r.form.apply_protection # <<>>
       /\ r.form.apply_protection[1] \in
            { <<a, b, c, d>> : a \in {"t","T"}, b \in {"r","R"}, c \in {"u","U"}, d \in {"e","E"} }
SentImage(h) == Len(h.responses) = 1 /\ h.responses[1].status = 200
\* the instance as create_property_template leaves it when it was constructed
\* for this call
FreshlyUsed ==
    CreatePropertyTemplate(BuyersMatchTemplate_init, Val(property_data), Val(main_img),
                           IF interior_images = <<>> THEN <<>> ELSE <<interior_images>>,
                           logo_img).gen

-----------------------------------------------------------------------------
(* Properties of _get_font *)

Candidates(bold) == IF bold THEN BoldFontPaths ELSE RegularFontPaths
\* the places in the candidate list of the fonts that load
Loadable(bold) == { k \in 1..3 : Candidates(bold)[k] \in fonts_installed }
FirstPlace(bold) == CHOOSE k \in Loadable(bold) : \A m \in Loadable(bold) : k <= m
\* the best available font: the first candidate that loads, else the default
BestAvailable(size, bold) ==
    IF Loadable(bold) = {} THEN [path |-> "default", size |-> 0]
    ELSE [path |-> Candidates(bold)[FirstPlace(bold)], size |-> size]
\* the candidates tried by a call that has to load
Tried(bold) ==
    IF Loadable(bold) = {} THEN Candidates(bold)
    ELSE SubSeq(Candidates(bold), 1, FirstPlace(bold))
SamePair(a, b) == a.size = b.size /\ a.bold = b.bold
Earlier(i) == { j \in 1..(i - 1) : SamePair(f_log[j], f_log[i]) }
PairsUpTo(i) == { <<f_log[j].size, f_log[j].bold>> : j \in 1..i }
EntriesFor(cache, c) == { k \in 1..Len(cache) : SamePair(cache[k], c) }

\* C11: every call of _get_font returns a font: for a (size, bold) pair asked
\* for the first time, the first candidate of that weight that loads, in list
\* order, or the default font when none loads, stored under the pair; after
\* every call the cache holds exactly one entry per distinct pair asked so far;
\* a stored entry is never replaced or removed; a repeated call returns the
\* font of the first call for the pair and tries no path.
C11_FontCache ==
    f_pc = "ready" =>
        /\ Val(f_gen).font_cache = (IF f_log = <<>> THEN <<>> ELSE f_log[Len(f_log)].after)
        /\ \A i \in 1..Len(f_log) :
             LET c == f_log[i]
             IN /\ c.font # NoFont
                /\ c.font = BestAvailable(c.size, c.bold)
                /\ c.before = (IF i = 1 THEN <<>> ELSE f_log[i - 1].after)
                /\ IsPrefix(c.before, c.after)
                /\ Len(c.after) = Cardinality(PairsUpTo(i))
                /\ \A j \in 1..i : Cardinality(EntriesFor(c.after, f_log[j])) = 1
                /\ \A k \in EntriesFor(c.after, c) : c.after[k].font = c.font
                /\ IF Earlier(i) = {}
                   THEN c.attempts = Tried(c.bold) /\ Len(c.after) = Len(c.before) + 1
                   ELSE /\ c.attempts = <<>>
                        /\ c.after = c.before
                        /\ \A j \in Earlier(i) : f_log[j].font = c.font

\* a pair asked for, then another, then the first again: the first call had to
\* pass over a candidate that does not load, the third tried nothing
C11_Witness ==
    /\ f_pc = "ready" /\ Len(f_log) = 3
    /\ SamePair(f_log[1], f_log[3]) /\ ~SamePair(f_log[1], f_log[2])
    /\ Len(f_log[1].attempts) = 2
    /\ f_log[1].font.path # "default"
    /\ f_log[3].attempts = <<>>
    /\ Len(Val(f_gen).font_cache) = 2


====
